---- MODULE Spec2Model ----
(***************************************************************************)
(* Multicast listener announcement (MLA) collection and reconciliation of  *)
(* batman-adv, multicast_mla.c.  One update cycle                          *)
(* (batadv_mcast_mla_tt_update) is modelled statement by statement: every  *)
(* loop iteration of the two collectors and of the two reconcile passes is *)
(* one step, so the intermediate states of a cycle are states of the model.*)
(* The translation table and the primary-interface lookup live outside     *)
(* multicast_mla.c and are modelled at their interface.                    *)
(***************************************************************************)
EXTENDS Integers, Sequences, FiniteSets, TLC

(***************************************************************************)
(* Program constants                                                       *)
(***************************************************************************)
BATADV_MLA_MAX == 255

ETH_P_IP == 2048

ETH_P_IPV6 == 34525

ENOMEM == 12

(***************************************************************************)
(* Bounds of the model                                                     *)
(***************************************************************************)
\* number of groups joined on the large device, above BATADV_MLA_MAX
BigExtra == 2

\* update cycles explored by the specification that reads the large device
MaxCycles == 2

(***************************************************************************)
(* Sequence helpers                                                        *)
(***************************************************************************)
Range(s) == {s[i] : i \in 1..Len(s)}

RemoveAt(s, i) == SubSeq(s, 1, i - 1) \o SubSeq(s, i + 1, Len(s))

NoDup(s) == Cardinality(Range(s)) = Len(s)

(***************************************************************************)
(* Addresses.  A MAC address is a tuple of six octets, an IPv4             *)
(* address a tuple of 4 octets in network order, an IPv6 address a tuple   *)
(* of 16 octets.                                                           *)
(***************************************************************************)
ZeroAddr == <<0, 0, 0, 0, 0, 0>>

\* ip_eth_mc_map(): 01:00:5e followed by the low 23 bits of the group
ip_eth_mc_map(ip4) == <<1, 0, 94, ip4[2] % 128, ip4[3], ip4[4]>>

\* ipv6_eth_mc_map(): 33:33 followed by the last four octets of the group
ipv6_eth_mc_map(ip6) == <<51, 51, ip6[13], ip6[14], ip6[15], ip6[16]>>

\* ipv4_is_local_multicast(): 224.0.0.0/24
ipv4_is_local_multicast(ip4) == ip4[1] = 224 /\ ip4[2] = 0 /\ ip4[3] = 0

\* IPV6_ADDR_MC_FLAG_TRANSIENT(): s6_addr[1] & 0x10
IPV6_ADDR_MC_FLAG_TRANSIENT(ip6) == (ip6[2] \div 16) % 2 = 1

\* a struct br_ip: protocol family and the group in the matching union member
BrIp4(ip4) == [proto |-> ETH_P_IP, ip4 |-> ip4, ip6 |-> <<>>]

BrIp6(ip6) == [proto |-> ETH_P_IPV6, ip4 |-> <<>>, ip6 |-> ip6]

\* an entry of a protocol family that is neither of the two
BrOther(ip4) == [proto |-> 0, ip4 |-> ip4, ip6 |-> <<>>]

batadv_mcast_mla_br_addr_cpy(src) ==
    IF src.proto = ETH_P_IP
    THEN <<1, 0, 94, src.ip4[2] % 128, src.ip4[3], src.ip4[4]>>
    ELSE IF src.proto = ETH_P_IPV6
         THEN <<51, 51, src.ip6[13], src.ip6[14], src.ip6[15], src.ip6[16]>>
         ELSE ZeroAddr

(***************************************************************************)
(* Address classifier.  A device is a record: mc, its hardware multicast   *)
(* list; ip4 and ip6, the groups joined on it.                             *)
(***************************************************************************)
batadv_mcast_mla_has_transient_ipv6(addr, dev) ==
    \E g \in dev.ip6 :
        ipv6_eth_mc_map(g) = addr /\ IPV6_ADDR_MC_FLAG_TRANSIENT(g)

batadv_mcast_mla_has_non_ll_ipv4(addr, dev) ==
    \E g \in dev.ip4 :
        ip_eth_mc_map(g) = addr /\ ~ipv4_is_local_multicast(g)

batadv_mcast_mla_has_unspecial_addr(addr, dev) ==
    IF addr[1] = 51 /\ addr[2] = 51
    THEN batadv_mcast_mla_has_transient_ipv6(addr, dev)
    ELSE IF addr[1] = 1 /\ addr[2] = 0 /\ addr[3] = 94
         THEN batadv_mcast_mla_has_non_ll_ipv4(addr, dev)
         ELSE FALSE

batadv_mcast_mla_is_duplicate(mcast_addr, list) ==
    \E i \in 1..Len(list) : list[i] = mcast_addr

(***************************************************************************)
(* The environment of one cycle: the groups joined on the soft interface   *)
(* and on its master, and the bridge's snooping database.                  *)
(***************************************************************************)
G4a == <<224, 1, 2, 3>>

G4b == <<224, 129, 2, 3>>

G4c == <<239, 5, 5, 5>>

G4ll == <<224, 0, 0, 251>>

G6t == <<255, 21, 0, 0, 0, 0, 0, 0, 0, 0, 0, 0, 0, 0, 0, 1>>

G6u == <<255, 21, 0, 0, 0, 0, 0, 0, 0, 0, 0, 0, 0, 0, 0, 2>>

G6w == <<255, 2, 0, 0, 0, 0, 0, 0, 0, 0, 0, 0, 0, 0, 0, 1>>

\* a hardware address that is no IP multicast mapping (802.1D group address)
MacStp == <<1, 128, 194, 0, 0, 0>>

NoDev == [mc |-> <<>>, ip4 |-> {}, ip6 |-> {}]

DevA ==
    [mc |-> <<ip_eth_mc_map(G4a), ip_eth_mc_map(G4ll), ipv6_eth_mc_map(G6t)>>,
     ip4 |-> {G4a, G4ll}, ip6 |-> {G6t}]

DevB ==
    [mc |-> <<MacStp, ip_eth_mc_map(G4c), ipv6_eth_mc_map(G6w)>>,
     ip4 |-> {G4c}, ip6 |-> {G6w}]

DevC ==
    [mc |-> <<ip_eth_mc_map(G4c), ip_eth_mc_map(G4a)>>,
     ip4 |-> {G4a, G4c}, ip6 |-> {}]

\* a membership list that names one address twice
DevDup ==
    [mc |-> <<ip_eth_mc_map(G4a), ipv6_eth_mc_map(G6u), ip_eth_mc_map(G4a)>>,
     ip4 |-> {G4a}, ip6 |-> {G6u}]

\* the soft interface's own list while it is enslaved to a master
DevSlave ==
    [mc |-> <<ipv6_eth_mc_map(G6u)>>, ip4 |-> {}, ip6 |-> {G6u}]

BigN == BATADV_MLA_MAX + BigExtra

BigGroup(i) == <<225, 7, i \div 256, i % 256>>

DevBig ==
    [mc |-> [i \in 1..BigN |-> ip_eth_mc_map(BigGroup(i))],
     ip4 |-> {BigGroup(i) : i \in 1..BigN}, ip6 |-> {}]

\* a list of exactly BATADV_MLA_MAX addresses, every one of a joined group
DevFull ==
    [mc |-> [i \in 1..BATADV_MLA_MAX |-> ip_eth_mc_map(BigGroup(i))],
     ip4 |-> {BigGroup(i) : i \in 1..BATADV_MLA_MAX}, ip6 |-> {}]

\* the same list followed by one address that is of no joined group
DevFullStp ==
    [mc |-> Append(DevFull.mc, MacStp), ip4 |-> DevFull.ip4, ip6 |-> {}]

Devs == {NoDev, DevA, DevB, DevC, DevDup}

BrLists ==
    {<<>>,
     <<BrIp4(G4b), BrIp6(G6u)>>,
     <<BrIp4(G4c), BrIp4(G4a), BrIp4(G4b)>>,
     <<BrOther(G4a), BrIp6(G6t)>>,
     <<BrIp6(G6w), BrOther(G4c), BrOther(G4ll)>>}

Env(soft, has_master, master, br) ==
    [soft |-> soft, has_master |-> has_master, master |-> master, br |-> br]

\* br_multicast_list_adjacent() finds nothing for a device that is no bridge port
SmallEnvs ==
    {Env(d, FALSE, NoDev, <<>>) : d \in Devs}
        \cup {Env(DevSlave, TRUE, d, b) : d \in Devs, b \in BrLists}

BigEnvs ==
    {Env(d, FALSE, NoDev, <<>>) : d \in {DevA, DevBig, DevFull, DevFullStp}}
        \cup {Env(DevSlave, TRUE, DevBig, b) :
                b \in {<<BrIp6(G6u)>>, <<BrOther(G4a), BrIp4(BigGroup(1))>>}}

\* a hardware address of a client of the soft interface
ClientMac == <<2, 0, 0, 0, 0, 1>>

\* addresses for which another caller of batadv_tt_local_add creates an entry
OtherAddrs == {ClientMac, ip_eth_mc_map(G4a)}

SharedEnvs ==
    {Env(d, FALSE, NoDev, <<>>) : d \in {NoDev, DevA}}
        \cup {Env(DevSlave, TRUE, DevB, <<BrIp4(G4b), BrIp6(G6u)>>)}

\* line 466 reads "num_mla", which batadv_mcast_mla_tt_update neither declares
\* nor assigns: the value is not tied to anything the function computed
UndeclaredNumMla == {0, 1, BATADV_MLA_MAX - 1, BATADV_MLA_MAX}

(***************************************************************************)
(* State                                                                   *)
(***************************************************************************)
VARIABLES
    mla_list,           \* bat_priv->mcast.mla_list, head first
    mcast_group_awareness, \* bat_priv->mcast_group_awareness
    tt,                 \* addresses with a local translation-table entry
    foreign,            \* addresses of tt whose entry another producer created
    primary_refs,       \* references this engine holds on the primary interface
    master_refs,        \* references this engine holds on the master device
    addr_lock,          \* netif_addr_lock_bh() of the device being read is held
    heap,               \* struct netdev_hw_addr allocated and not yet freed
    pc,                 \* position within batadv_mcast_mla_tt_update
    env,                \* the devices and the snooping database of this cycle
    primary_if,         \* tt_update: primary_if != NULL
    mcast_list,         \* tt_update: the list being collected, head first
    ret,                \* tt_update: ret
    dev,                \* local_collect: the device whose list is read
    num_mla_max,        \* collectors: num_mla_max
    num_mla,            \* collectors: num_mla
    cret,               \* collectors: ret
    idx,                \* cursor of the list walk in progress
    bridge_mcast_list,  \* bridge_collect: bridge_mcast_list
    ops,                \* history: translation-table calls of this cycle
    warned,             \* history: collectors that printed the pr_warn()
    ran,                \* history: collectors entered in this cycle
    start_mla,          \* history: mla_list when the cycle started
    start_tt,           \* history: tt when the cycle started
    reconciled,         \* history: this cycle reached the "update" label
    cand,               \* history: mcast_list as it was at the "update" label
    prev_reconciled,    \* history: an earlier cycle reached "update"
    prev_cand,          \* history: addresses of the last such mcast_list
    cycles              \* cycles started, counted only where they are bounded

vars ==
    <<mla_list, mcast_group_awareness, tt, foreign, primary_refs, master_refs,
      addr_lock, heap, pc, env,
      primary_if, mcast_list, ret, dev, num_mla_max, num_mla, cret, idx,
      bridge_mcast_list, ops, warned, ran, start_mla, start_tt, reconciled,
      cand, prev_reconciled, prev_cand, cycles>>

persistent == <<mla_list, tt, foreign>>

config == <<mcast_group_awareness>>

history == <<ops, warned, ran, start_mla, start_tt, reconciled, cand>>

collector == <<dev, num_mla_max, num_mla, cret, idx, bridge_mcast_list>>

devrefs == <<master_refs, addr_lock>>

Init ==
    /\ mla_list = <<>>
    /\ mcast_group_awareness = 1
    /\ tt = {}
    /\ foreign = {}
    /\ primary_refs = 0
    /\ master_refs = 0
    /\ addr_lock = FALSE
    /\ heap = 0
    /\ pc = "idle"
    /\ env = Env(NoDev, FALSE, NoDev, <<>>)
    /\ primary_if = FALSE
    /\ mcast_list = <<>>
    /\ ret = 0
    /\ dev = NoDev
    /\ num_mla_max = 0
    /\ num_mla = 0
    /\ cret = 0
    /\ idx = 1
    /\ bridge_mcast_list = <<>>
    /\ ops = <<>>
    /\ warned = {}
    /\ ran = {}
    /\ start_mla = <<>>
    /\ start_tt = {}
    /\ reconciled = FALSE
    /\ cand = <<>>
    /\ prev_reconciled = FALSE
    /\ prev_cand = {}
    /\ cycles = 0

(***************************************************************************)
(* The translation table (translation-table.c) and the primary interface   *)
(* (hard-interface.c), at their interface                                  *)
(***************************************************************************)
batadv_tt_local_add(table, addr) == table \cup {addr}

batadv_tt_local_remove(table, addr) == table \ {addr}

batadv_primary_if_get_selected(refs, selected) ==
    IF selected THEN refs + 1 ELSE refs

batadv_hardif_free_ref(refs) == refs - 1

(***************************************************************************)
(* List primitives of <linux/list.h>, on head-first sequences              *)
(***************************************************************************)
list_add(new, list) == <<new>> \o list

list_add_tail(new, list) == Append(list, new)

(***************************************************************************)
(* batadv_mcast_mla_tt_update, lines 440-457: the function's entry up to   *)
(* the first call or jump                                                  *)
(***************************************************************************)
\* the entry checks in the opposite order: "disabled" tested before primary_if
entry_target_disabled_first(selected, aware) ==
    IF aware = 0 THEN "tt_clean"
    ELSE IF ~selected THEN "out" ELSE "local_collect"

\* the entry checks without the test of mcast_group_awareness
entry_target_no_disable(selected, aware) ==
    IF ~selected THEN "out" ELSE "local_collect"

entry_target(selected, aware) ==
    IF ~selected THEN "out"
    ELSE IF aware = 0 THEN "tt_clean" ELSE "local_collect"

tt_update_enter(Envs, bounded) ==
    /\ pc = "idle"
    /\ bounded => cycles < MaxCycles
    /\ \E e \in Envs, selected \in BOOLEAN, aware \in {0, 1} :
        /\ env' = e
        /\ mcast_group_awareness' = aware
        /\ primary_if' = selected
        /\ primary_refs' = batadv_primary_if_get_selected(primary_refs, selected)
        /\ pc' = entry_target(selected, aware)
    /\ mcast_list' = <<>>
    /\ idx' = 1
    /\ cycles' = IF bounded THEN cycles + 1 ELSE cycles
    /\ ops' = <<>>
    /\ warned' = {}
    /\ ran' = {}
    /\ start_mla' = mla_list
    /\ start_tt' = tt
    /\ reconciled' = FALSE
    /\ cand' = <<>>
    /\ UNCHANGED <<persistent, devrefs, heap, ret, dev, num_mla_max, num_mla,
                   cret, bridge_mcast_list, prev_reconciled, prev_cand>>

batadv_mcast_mla_tt_update == tt_update_enter(SmallEnvs, FALSE)

batadv_mcast_mla_tt_update_big == tt_update_enter(BigEnvs, TRUE)

(***************************************************************************)
(* batadv_mcast_mla_local_collect, lines 263-306                           *)
(***************************************************************************)
\* lines 266-273 reading the soft interface even when it has a master
effective_dev_soft(e) == e.soft

effective_dev(e) == IF e.has_master THEN e.master ELSE e.soft

\* batadv_mcast_mla_get_master: dev_hold() on the master, if there is one
batadv_mcast_mla_get_master(refs, has_master) ==
    IF has_master THEN refs + 1 ELSE refs

\* lines 302-303 without the dev_put()
master_free_ref_none(refs) == refs

\* batadv_mcast_mla_master_free_ref: dev_put()
batadv_mcast_mla_master_free_ref(refs) == refs - 1

\* line 280 with ">" in place of ">="
local_full_off_by_one(n, max) == n > max

\* line 280: the test that ends the walk once num_mla_max entries are kept
local_full(n, max) == n >= max

\* lines 266-278: take the master, lock the list of the device to read
local_collect_enter ==
    /\ pc = "local_collect"
    /\ dev' = effective_dev(env)
    /\ master_refs' = batadv_mcast_mla_get_master(master_refs, env.has_master)
    /\ addr_lock' = TRUE
    /\ num_mla_max' = BATADV_MLA_MAX
    /\ num_mla' = 0
    /\ cret' = 0
    /\ idx' = 1
    /\ ran' = ran \cup {"local"}
    /\ pc' = "local_loop"
    /\ UNCHANGED <<persistent, config, primary_refs, heap, env, primary_if, mcast_list,
                   ret, bridge_mcast_list, ops, warned, start_mla, start_tt,
                   reconciled, cand, prev_reconciled, prev_cand, cycles>>

\* lines 279-299 with the filter of line 287 ahead of the test of line 280
local_collect_loop_filter_first ==
    /\ pc = "local_loop"
    /\ IF idx > Len(dev.mc)
       THEN /\ pc' = "local_exit"
            /\ UNCHANGED <<warned, idx, mcast_list, num_mla, heap>>
       ELSE IF ~batadv_mcast_mla_has_unspecial_addr(dev.mc[idx], dev)
       THEN /\ idx' = idx + 1
            /\ UNCHANGED <<pc, warned, mcast_list, num_mla, heap>>
       ELSE IF local_full(num_mla, num_mla_max)
       THEN /\ warned' = warned \cup {"local"}
            /\ pc' = "local_exit"
            /\ UNCHANGED <<idx, mcast_list, num_mla, heap>>
       ELSE /\ heap' = heap + 1
            /\ mcast_list' = list_add(dev.mc[idx], mcast_list)
            /\ num_mla' = num_mla + 1
            /\ idx' = idx + 1
            /\ UNCHANGED <<pc, warned>>
    /\ UNCHANGED <<persistent, config, primary_refs, devrefs, env, primary_if,
                   ret, dev, num_mla_max, cret, bridge_mcast_list, ops, ran,
                   start_mla, start_tt, reconciled, cand, prev_reconciled,
                   prev_cand, cycles>>

\* lines 279-299: one pass of netdev_for_each_mc_addr, kmalloc succeeding
local_collect_loop ==
    /\ pc = "local_loop"
    /\ IF idx > Len(dev.mc)
       THEN /\ pc' = "local_exit"
            /\ UNCHANGED <<warned, idx, mcast_list, num_mla, heap>>
       ELSE IF local_full(num_mla, num_mla_max)
       THEN /\ warned' = warned \cup {"local"}
            /\ pc' = "local_exit"
            /\ UNCHANGED <<idx, mcast_list, num_mla, heap>>
       ELSE IF ~batadv_mcast_mla_has_unspecial_addr(dev.mc[idx], dev)
       THEN /\ idx' = idx + 1
            /\ UNCHANGED <<pc, warned, mcast_list, num_mla, heap>>
       ELSE /\ heap' = heap + 1
            /\ mcast_list' = list_add(dev.mc[idx], mcast_list)
            /\ num_mla' = num_mla + 1
            /\ idx' = idx + 1
            /\ UNCHANGED <<pc, warned>>
    /\ UNCHANGED <<persistent, config, primary_refs, devrefs, env, primary_if, ret, dev,
                   num_mla_max, cret, bridge_mcast_list, ops, ran, start_mla,
                   start_tt, reconciled, cand, prev_reconciled, prev_cand,
                   cycles>>

\* lines 290-294: kmalloc fails for an entry that passed the filter
local_collect_enomem ==
    /\ pc = "local_loop"
    /\ idx <= Len(dev.mc)
    /\ ~local_full(num_mla, num_mla_max)
    /\ batadv_mcast_mla_has_unspecial_addr(dev.mc[idx], dev)
    /\ cret' = -ENOMEM
    /\ pc' = "local_exit"
    /\ UNCHANGED <<persistent, config, primary_refs, devrefs, heap, env, primary_if,
                   mcast_list, ret, dev, num_mla_max, num_mla, idx,
                   bridge_mcast_list, history, prev_reconciled, prev_cand,
                   cycles>>

after_local(r) == IF r < 0 THEN "out" ELSE "bridge_collect"

\* lines 300-305 and the caller's lines 459-462
local_collect_return ==
    /\ pc = "local_exit"
    /\ addr_lock' = FALSE
    /\ master_refs' = IF env.has_master
                      THEN batadv_mcast_mla_master_free_ref(master_refs)
                      ELSE master_refs
    /\ ret' = IF cret < 0 THEN cret ELSE num_mla
    /\ pc' = after_local(ret')
    /\ UNCHANGED <<persistent, config, primary_refs, heap, env, primary_if, mcast_list,
                   collector, history, prev_reconciled, prev_cand, cycles>>

(***************************************************************************)
(* batadv_mcast_mla_bridge_collect, lines 342-387                          *)
(***************************************************************************)
\* line 466, "BATADV_MLA_MAX - num_mla": local_count is what the local
\* collector returned, undeclared the value the identifier num_mla yields
bridge_budget(local_count, undeclared) == BATADV_MLA_MAX - undeclared

\* line 366 with no address treated as a duplicate
bridge_skips_nothing(addr, list) == FALSE

\* line 366: an address already on mcast_list is passed over
bridge_skips(addr, list) == batadv_mcast_mla_is_duplicate(addr, list)

\* lines 346-356 and the argument of line 466: the snooping query succeeds
bridge_collect_enter ==
    /\ pc = "bridge_collect"
    /\ \E u \in UndeclaredNumMla : num_mla_max' = bridge_budget(ret, u)
    /\ bridge_mcast_list' = env.br
    /\ num_mla' = 0
    /\ cret' = 0
    /\ idx' = 1
    /\ ran' = ran \cup {"bridge"}
    /\ pc' = "bridge_loop"
    /\ UNCHANGED <<persistent, config, primary_refs, devrefs, heap, env, primary_if,
                   mcast_list, ret, dev, ops, warned, start_mla, start_tt,
                   reconciled, cand, prev_reconciled, prev_cand, cycles>>

\* lines 354-356: br_multicast_list_adjacent() fails, leaving what it had
\* fetched so far on bridge_mcast_list
bridge_collect_fetch_error ==
    /\ pc = "bridge_collect"
    /\ \E u \in UndeclaredNumMla : num_mla_max' = bridge_budget(ret, u)
    /\ \E k \in {0, Len(env.br)} : bridge_mcast_list' = SubSeq(env.br, 1, k)
    /\ num_mla' = 0
    /\ cret' = -ENOMEM
    /\ idx' = 1
    /\ ran' = ran \cup {"bridge"}
    /\ pc' = "bridge_exit"
    /\ UNCHANGED <<persistent, config, primary_refs, devrefs, heap, env, primary_if,
                   mcast_list, ret, dev, ops, warned, start_mla, start_tt,
                   reconciled, cand, prev_reconciled, prev_cand, cycles>>

\* lines 358-378: one pass of list_for_each_entry, kmalloc succeeding
bridge_collect_loop ==
    /\ pc = "bridge_loop"
    /\ IF idx > Len(bridge_mcast_list)
       THEN /\ pc' = "bridge_exit"
            /\ UNCHANGED <<warned, idx, mcast_list, num_mla, heap>>
       ELSE IF num_mla >= num_mla_max
       THEN /\ warned' = warned \cup {"bridge"}
            /\ pc' = "bridge_exit"
            /\ UNCHANGED <<idx, mcast_list, num_mla, heap>>
       ELSE LET mcast_addr ==
                    batadv_mcast_mla_br_addr_cpy(bridge_mcast_list[idx])
            IN  IF bridge_skips(mcast_addr, mcast_list)
                THEN /\ idx' = idx + 1
                     /\ UNCHANGED <<pc, warned, mcast_list, num_mla, heap>>
                ELSE /\ heap' = heap + 1
                     /\ mcast_list' = list_add(mcast_addr, mcast_list)
                     /\ num_mla' = num_mla + 1
                     /\ idx' = idx + 1
                     /\ UNCHANGED <<pc, warned>>
    /\ UNCHANGED <<persistent, config, primary_refs, devrefs, env, primary_if, ret, dev,
                   num_mla_max, cret, bridge_mcast_list, ops, ran, start_mla,
                   start_tt, reconciled, cand, prev_reconciled, prev_cand,
                   cycles>>

\* lines 369-373: kmalloc fails for an address that is no duplicate
bridge_collect_enomem ==
    /\ pc = "bridge_loop"
    /\ idx <= Len(bridge_mcast_list)
    /\ num_mla < num_mla_max
    /\ ~bridge_skips(
            batadv_mcast_mla_br_addr_cpy(bridge_mcast_list[idx]), mcast_list)
    /\ cret' = -ENOMEM
    /\ pc' = "bridge_exit"
    /\ UNCHANGED <<persistent, config, primary_refs, devrefs, heap, env, primary_if,
                   mcast_list, ret, dev, num_mla_max, num_mla, idx,
                   bridge_mcast_list, history, prev_reconciled, prev_cand,
                   cycles>>

\* lines 467-468 with the error of the bridge collector ignored
after_bridge_ignore_error(r) == "tt_clean"

after_bridge(r) == IF r < 0 THEN "out" ELSE "tt_clean"

\* lines 380-386 and the caller's lines 465-468
bridge_collect_return ==
    /\ pc = "bridge_exit"
    /\ bridge_mcast_list' = <<>>
    /\ ret' = IF cret < 0 THEN cret ELSE num_mla
    /\ pc' = after_bridge(ret')
    /\ idx' = 1
    /\ UNCHANGED <<persistent, config, primary_refs, devrefs, heap, env, primary_if,
                   mcast_list, dev, num_mla_max, num_mla, cret, history,
                   prev_reconciled, prev_cand, cycles>>

(***************************************************************************)
(* batadv_mcast_mla_tt_clean, lines 406-421                                *)
(***************************************************************************)
\* line 412 with every previously announced entry treated as outdated
tt_clean_keeps_nothing(addr, list) == FALSE

\* line 412 with every previously announced entry treated as still wanted
tt_clean_keeps_everything(addr, list) == TRUE

tt_clean_keeps(addr, list) == batadv_mcast_mla_is_duplicate(addr, list)

\* lines 406-421 without the batadv_tt_local_remove call of lines 415-416
tt_clean_loop_no_remove ==
    /\ pc = "tt_clean"
    /\ IF idx > Len(mla_list)
       THEN /\ pc' = "tt_add"
            /\ idx' = 1
            /\ reconciled' = TRUE
            /\ cand' = mcast_list
            /\ UNCHANGED <<mla_list, heap, ops>>
       ELSE IF tt_clean_keeps(mla_list[idx], mcast_list)
       THEN /\ idx' = idx + 1
            /\ UNCHANGED <<pc, reconciled, cand, mla_list, heap, ops>>
       ELSE /\ ops' = Append(ops, <<"remove", mla_list[idx]>>)
            /\ mla_list' = RemoveAt(mla_list, idx)
            /\ heap' = heap - 1
            /\ UNCHANGED <<pc, idx, reconciled, cand>>
    /\ UNCHANGED <<mcast_group_awareness, tt, foreign, primary_refs, devrefs,
                   env, primary_if, mcast_list, ret, dev, num_mla_max, num_mla,
                   cret, bridge_mcast_list, warned, ran, start_mla, start_tt,
                   prev_reconciled, prev_cand, cycles>>

\* one pass of list_for_each_entry_safe over mla_list; when the walk is over,
\* line 473 calls batadv_mcast_mla_tt_add
tt_clean_loop ==
    /\ pc = "tt_clean"
    /\ IF idx > Len(mla_list)
       THEN /\ pc' = "tt_add"
            /\ idx' = 1
            /\ reconciled' = TRUE
            /\ cand' = mcast_list
            /\ UNCHANGED <<mla_list, tt, foreign, heap, ops>>
       ELSE IF tt_clean_keeps(mla_list[idx], mcast_list)
       THEN /\ idx' = idx + 1
            /\ UNCHANGED <<pc, reconciled, cand, mla_list, tt, foreign, heap,
                           ops>>
       ELSE /\ tt' = batadv_tt_local_remove(tt, mla_list[idx])
            /\ foreign' = batadv_tt_local_remove(foreign, mla_list[idx])
            /\ ops' = Append(ops, <<"remove", mla_list[idx]>>)
            /\ mla_list' = RemoveAt(mla_list, idx)
            /\ heap' = heap - 1
            /\ UNCHANGED <<pc, idx, reconciled, cand>>
    /\ UNCHANGED <<mcast_group_awareness, primary_refs, devrefs, env, primary_if,
                   mcast_list, ret, dev, num_mla_max, num_mla, cret,
                   bridge_mcast_list, warned, ran, start_mla, start_tt,
                   prev_reconciled, prev_cand, cycles>>

(***************************************************************************)
(* batadv_mcast_mla_tt_add, lines 423-438                                  *)
(***************************************************************************)
\* lines 430-432 without the test against mla_list
tt_add_skips_nothing(addr, list) == FALSE

tt_add_skips(addr, list) == batadv_mcast_mla_is_duplicate(addr, list)

\* one pass of list_for_each_entry_safe over mcast_list
tt_add_loop ==
    /\ pc = "tt_add"
    /\ IF idx > Len(mcast_list)
       THEN /\ pc' = "out"
            /\ UNCHANGED <<idx, mla_list, mcast_list, tt, ops>>
       ELSE IF tt_add_skips(mcast_list[idx], mla_list)
       THEN /\ idx' = idx + 1
            /\ UNCHANGED <<pc, mla_list, mcast_list, tt, ops>>
       ELSE /\ tt' = batadv_tt_local_add(tt, mcast_list[idx])
            /\ ops' = Append(ops, <<"add", mcast_list[idx]>>)
            /\ mla_list' = list_add_tail(mcast_list[idx], mla_list)
            /\ mcast_list' = RemoveAt(mcast_list, idx)
            /\ UNCHANGED <<pc, idx>>
    /\ UNCHANGED <<mcast_group_awareness, foreign, primary_refs, devrefs, heap,
                   env, primary_if, ret, dev,
                   num_mla_max, num_mla, cret, bridge_mcast_list, warned, ran,
                   start_mla, start_tt, reconciled, cand, prev_reconciled,
                   prev_cand, cycles>>

(***************************************************************************)
(* batadv_mcast_mla_tt_update, lines 475-480, and                          *)
(* batadv_mcast_mla_collect_free, lines 396-404                            *)
(***************************************************************************)
\* lines 396-404 with nothing unlinked and freed
collect_free_keeps(list) == list

batadv_mcast_mla_collect_free(list) == <<>>

\* the out label: drop the primary interface, free what is left on mcast_list
tt_update_out ==
    /\ pc = "out"
    /\ primary_refs' = IF primary_if
                       THEN batadv_hardif_free_ref(primary_refs)
                       ELSE primary_refs
    /\ mcast_list' = batadv_mcast_mla_collect_free(mcast_list)
    /\ heap' = heap - (Len(mcast_list) - Len(mcast_list'))
    /\ pc' = "done"
    /\ UNCHANGED <<persistent, config, devrefs, env, primary_if, ret, collector,
                   history, prev_reconciled, prev_cand, cycles>>

\* the function returns: its locals are gone, the next cycle may start
tt_update_return ==
    /\ pc = "done"
    /\ pc' = "idle"
    /\ prev_reconciled' = (prev_reconciled \/ reconciled)
    /\ prev_cand' = IF reconciled THEN Range(cand) ELSE prev_cand
    /\ env' = Env(NoDev, FALSE, NoDev, <<>>)
    /\ primary_if' = FALSE
    /\ ret' = 0
    /\ dev' = NoDev
    /\ num_mla_max' = 0
    /\ num_mla' = 0
    /\ cret' = 0
    /\ idx' = 1
    /\ ops' = <<>>
    /\ warned' = {}
    /\ ran' = {}
    /\ start_mla' = <<>>
    /\ start_tt' = {}
    /\ reconciled' = FALSE
    /\ cand' = <<>>
    /\ UNCHANGED <<persistent, config, primary_refs, devrefs, heap, mcast_list,
                   bridge_mcast_list, cycles>>

(***************************************************************************)
(* Another writer of the translation table                                 *)
(***************************************************************************)
batadv_mcast_mla_tt_update_shared == tt_update_enter(SharedEnvs, FALSE)

\* between two cycles another caller of batadv_tt_local_add creates the
\* entry of an address that has none
other_tt_local_add ==
    /\ pc = "idle"
    /\ \E a \in OtherAddrs :
         /\ a \notin tt
         /\ tt' = batadv_tt_local_add(tt, a)
         /\ foreign' = foreign \cup {a}
    /\ UNCHANGED <<mla_list, config, primary_refs, devrefs, heap, pc, env,
                   primary_if, mcast_list, ret, collector, history,
                   prev_reconciled, prev_cand, cycles>>

(***************************************************************************)
(* Specifications                                                          *)
(***************************************************************************)
Cycle ==
    \/ local_collect_enter
    \/ local_collect_loop
    \/ local_collect_enomem
    \/ local_collect_return
    \/ bridge_collect_enter
    \/ bridge_collect_fetch_error
    \/ bridge_collect_loop
    \/ bridge_collect_enomem
    \/ bridge_collect_return
    \/ tt_clean_loop
    \/ tt_add_loop
    \/ tt_update_out
    \/ tt_update_return

Next == batadv_mcast_mla_tt_update \/ Cycle

\* every cycle over a small environment, any number of cycles
Spec == Init /\ [][Next]_vars

NextBig == batadv_mcast_mla_tt_update_big \/ Cycle

\* at most MaxCycles cycles, over environments with more than BATADV_MLA_MAX
\* listeners
SpecBig == Init /\ [][NextBig]_vars

NextShared ==
    batadv_mcast_mla_tt_update_shared \/ other_tt_local_add \/ Cycle

\* the engine and another writer of the same translation table
SpecShared == Init /\ [][NextShared]_vars

(***************************************************************************)
(* Properties                                                              *)
(***************************************************************************)
Removes == [i \in 1..Len(start_mla) |-> <<"remove", start_mla[i]>>]

AtEnd == pc \in {"out", "done"}

IsAdd(op) == op[1] = "add"

Adds == SelectSeq(ops, IsAdd)

\* C1: once a collector has returned an allocation error (ret < 0), up to the
\* end of the cycle no translation-table call has been issued and mla_list
\* and the table are what they were when the cycle started.
C1_FailSafe ==
    ret < 0 => /\ ops = <<>>
               /\ mla_list = start_mla
               /\ tt = start_tt
               /\ pc \in {"out", "done"}

\* a cycle that ended after the bridge collector failed with entries already
\* collected, over a non-empty previous mla_list
C1_Witness ==
    /\ pc = "done"
    /\ ret < 0
    /\ "bridge" \in ran
    /\ num_mla > 0
    /\ start_mla # <<>>

\* C2: when tt_clean and tt_add have run, mla_list holds exactly the addresses
\* of the collected list, and so does the translation table.
C2_Convergence ==
    (AtEnd /\ reconciled) =>
        /\ Range(mla_list) = Range(cand)
        /\ tt = Range(cand)

\* a reconcile that both removed and added, leaving a common address in place
C2_Witness ==
    /\ pc = "done"
    /\ reconciled
    /\ \E i, j \in 1..Len(ops) : ops[i][1] = "remove" /\ ops[j][1] = "add"
    /\ Range(start_mla) \cap Range(cand) # {}

\* C3: a reconcile over the same addresses as the reconcile before it issues
\* no translation-table call and leaves mla_list and the table as they were.
C3_Idempotence ==
    (AtEnd /\ reconciled /\ prev_reconciled /\ Range(cand) = prev_cand) =>
        /\ ops = <<>>
        /\ mla_list = start_mla
        /\ tt = start_tt

\* a second reconcile over the same, non-empty set of addresses
C3_Witness ==
    /\ pc = "done"
    /\ reconciled
    /\ prev_reconciled
    /\ Range(cand) = prev_cand
    /\ Cardinality(prev_cand) >= 2

\* C4: within a cycle every call after an add is an add; and from a previous list
\* {A, B} and collected addresses {B, C} the calls are remove(A), add(C) and
\* mla_list ends as {B, C}.
C4_ShrinkThenGrow ==
    /\ \A i \in 1..Len(ops) - 1 :
            ops[i][1] = "add" => ops[i + 1][1] = "add"
    /\ (/\ AtEnd
        /\ reconciled
        /\ Cardinality(Range(start_mla)) = 2
        /\ Cardinality(Range(cand)) = 2) =>
            \A A, B \in Range(start_mla) : \A C \in Range(cand) :
                (/\ A # B
                 /\ C \notin {A, B}
                 /\ B \in Range(cand))
                    => /\ ops = << <<"remove", A>>, <<"add", C>> >>
                       /\ Range(mla_list) = {B, C}

\* a finished reconcile from {A, B} to {B, C}
C4_Witness ==
    /\ pc = "done"
    /\ reconciled
    /\ Cardinality(Range(start_mla)) = 2
    /\ Cardinality(Range(cand)) = 2
    /\ Cardinality(Range(start_mla) \cap Range(cand)) = 1

\* C5: with a primary interface and mcast_group_awareness = 0 no collector is
\* entered, and at the end of the cycle the collected list was empty, every
\* previously announced address was removed in list order, nothing was added
\* and mla_list is empty.
C5_Disabled ==
    (pc # "idle" /\ primary_if /\ mcast_group_awareness = 0) =>
        /\ ran = {}
        /\ \A i \in 1..Len(ops) : ops[i][1] = "remove"
        /\ AtEnd => /\ reconciled
                    /\ cand = <<>>
                    /\ ops = Removes
                    /\ mla_list = <<>>

\* a disabled cycle that found two or more announced addresses
C5_Witness ==
    /\ pc = "done"
    /\ primary_if
    /\ mcast_group_awareness = 0
    /\ Len(start_mla) >= 2

\* C6: without a primary interface the cycle enters no collector, issues no
\* translation-table call and leaves mla_list and the table alone, whatever
\* mcast_group_awareness reads.
C6_NoPrimary ==
    (pc # "idle" /\ ~primary_if) =>
        /\ AtEnd
        /\ ran = {}
        /\ ~reconciled
        /\ ops = <<>>
        /\ mla_list = start_mla
        /\ tt = start_tt

\* a cycle without primary interface, optimization disabled, addresses
\* announced
C6_Witness ==
    /\ pc = "done"
    /\ ~primary_if
    /\ mcast_group_awareness = 0
    /\ start_mla # <<>>

\* C7: the collected list and mla_list never hold more than BATADV_MLA_MAX
\* entries, and the bridge collector's budget is BATADV_MLA_MAX minus the
\* number of entries the local collector returned.
C7_CapacityBound ==
    /\ Len(mcast_list) <= BATADV_MLA_MAX
    /\ Len(mla_list) <= BATADV_MLA_MAX
    /\ pc \in {"bridge_loop", "bridge_exit"} =>
            num_mla_max = BATADV_MLA_MAX - ret

\* C8: the list handed to tt_clean and tt_add names no address twice.
C8_CandidateNoDup == pc = "tt_clean" => NoDup(mcast_list)

\* C9: mla_list never names an address twice, and a cycle issues at most one
\* add per address.
C9_AnnouncedNoDup ==
    /\ NoDup(mla_list)
    /\ NoDup(Adds)

\* a finished reconcile whose collected list named a new address twice
C9_Witness ==
    /\ pc = "done"
    /\ reconciled
    /\ \E i, j \in 1..Len(cand) :
            /\ i # j
            /\ cand[i] = cand[j]
            /\ cand[i] \notin Range(start_mla)
            /\ cand[i] \in Range(mla_list)

RecognizedBefore(list, n) ==
    {i \in 1..n : i <= Len(list) /\ list[i].proto \in {ETH_P_IP, ETH_P_IPV6}}

\* C10: the all-zero address of an unrecognized protocol family never enters
\* the collected list or mla_list, is never added to the table, and entries
\* of such a family do not count against the bridge collector's budget.
C10_UnknownFamilyNoOp ==
    /\ ZeroAddr \notin Range(mcast_list)
    /\ ZeroAddr \notin Range(mla_list)
    /\ ZeroAddr \notin tt
    /\ \A i \in 1..Len(ops) : ops[i] # <<"add", ZeroAddr>>
    /\ pc = "bridge_loop" =>
            num_mla <= Cardinality(RecognizedBefore(bridge_mcast_list, idx - 1))

(***************************************************************************)
(* The local collector, lines 263-306                                      *)
(***************************************************************************)
\* the cycle stopped because batadv_mcast_mla_local_collect returned an error
LocalFailed == ran = {"local"} /\ ret < 0

\* C11 as stated: when the local collector fails with an allocation error,
\* the entries it collected in that call are already freed and off the list
\* it was given by the time it has returned
C11_DiscardedOnReturn ==
    (pc = "out" /\ LocalFailed) => mcast_list = <<>>

\* C11: when the local collector fails with an allocation error, the entries
\* it collected in that call are still on the list when it has returned; the
\* caller frees every one of them at its out label, hands none of them to
\* the reconciler, and leaves the translation table and the announced list
\* as they were
C11_DiscardedByCaller ==
    LocalFailed =>
        /\ pc \in {"out", "done"}
        /\ ~reconciled
        /\ ops = <<>>
        /\ pc = "out" =>
              /\ Len(mcast_list) = num_mla
              /\ heap = Len(mla_list) + num_mla
        /\ pc = "done" =>
              /\ mcast_list = <<>>
              /\ heap = Len(mla_list)

C11_Witness ==
    /\ pc = "done"
    /\ LocalFailed
    /\ num_mla > 0
    /\ mla_list # <<>>
    /\ heap = Len(mla_list)

\* the device whose list the local collector has to read: the master of the
\* soft interface if it has one, the soft interface otherwise
SourceDev == IF env.has_master THEN env.master ELSE env.soft

\* C12: when the local collector has returned a count, every entry on the
\* list is an address of the source device's multicast list that passes
\* batadv_mcast_mla_has_unspecial_addr against that device, and the number of
\* entries equals the returned count, which exceeds neither the length of
\* the device's list nor num_mla_max
C12_LocalCollectContract ==
    pc = "bridge_collect" =>
        /\ ret = Len(mcast_list)
        /\ ret <= Len(SourceDev.mc)
        /\ ret <= num_mla_max
        /\ \A i \in 1..Len(mcast_list) :
              /\ mcast_list[i] \in Range(SourceDev.mc)
              /\ batadv_mcast_mla_has_unspecial_addr(mcast_list[i], SourceDev)

C12_Witness ==
    /\ pc = "bridge_collect"
    /\ env.has_master
    /\ ret = num_mla_max
    /\ ret < Len(SourceDev.mc)
    /\ Len(mcast_list) = BATADV_MLA_MAX

\* line 287 for the device the local collector has to read
Qualifies(addr) == batadv_mcast_mla_has_unspecial_addr(addr, SourceDev)

Qualifying == SelectSeq(SourceDev.mc, Qualifies)

Reverse(s) == [i \in 1..Len(s) |-> s[Len(s) + 1 - i]]

\* C13: when the device's list holds more than num_mla_max qualifying
\* addresses, the local collector returns num_mla_max and no error, has
\* raised the capacity warning, and has kept exactly the first num_mla_max
\* qualifying addresses in listed order (list_add puts each at the head);
\* the cycle does not stop at the local collector, and a reconcile that
\* follows announces every one of the kept addresses
C13_Truncation ==
    /\ "local" \in warned => ~LocalFailed
    /\ (pc = "bridge_collect" /\ Len(Qualifying) > num_mla_max) =>
          /\ ret = num_mla_max
          /\ "local" \in warned
          /\ mcast_list = Reverse(SubSeq(Qualifying, 1, num_mla_max))
    /\ (/\ pc = "done"
        /\ reconciled
        /\ "local" \in ran
        /\ Len(Qualifying) > BATADV_MLA_MAX) =>
          /\ "local" \in warned
          /\ Range(SubSeq(Qualifying, 1, BATADV_MLA_MAX)) \subseteq Range(mla_list)
          /\ tt = Range(mla_list)

C13_Witness ==
    /\ pc = "done"
    /\ reconciled
    /\ "local" \in warned
    /\ Len(Qualifying) > BATADV_MLA_MAX
    /\ Len(mla_list) >= BATADV_MLA_MAX
    /\ ret >= 0

\* C20: a local collection that ends without an allocation error has raised
\* the capacity warning exactly when the device's list has a further entry
\* after the one kept as number num_mla_max, that is, when the list without
\* its last entry already holds num_mla_max qualifying addresses; whether the
\* further entry qualifies plays no part
C20_WarnExactly ==
    pc = "local_exit" =>
        IF cret < 0
        THEN "local" \notin warned
        ELSE "local" \in warned <=>
                Len(SelectSeq(SubSeq(SourceDev.mc, 1, Len(SourceDev.mc) - 1),
                              Qualifies)) >= num_mla_max

\* the warning is raised although every qualifying address was kept
C20_Witness ==
    /\ pc = "local_exit"
    /\ "local" \in warned
    /\ Len(Qualifying) = num_mla
    /\ mcast_list = Reverse(Qualifying)

(***************************************************************************)
(* The announced list and the translation table                            *)
(***************************************************************************)
\* the table entries that batadv_mcast_mla_tt_add created
OwnEntries == tt \ foreign

\* C14: between cycles and at the end of every cycle, whatever the outcomes
\* of the cycles so far, every address on mla_list has an entry in the
\* translation table, and every entry batadv_mcast_mla_tt_add created and
\* batadv_mcast_mla_tt_clean has not removed is an address on mla_list
C14_TableMatchesAnnounced ==
    pc \in {"idle", "done"} =>
        /\ Range(mla_list) \subseteq tt
        /\ OwnEntries \subseteq Range(mla_list)

C14_Witness ==
    /\ pc = "done"
    /\ prev_reconciled
    /\ ret < 0
    /\ Len(mla_list) >= 2
    /\ OwnEntries = Range(mla_list)

\* C15: no step of a cycle removes a translation-table entry that another
\* producer created, also when that entry is of an address the engine
\* announces
C15_ForeignEntriesKept == [][foreign \subseteq foreign']_vars

(***************************************************************************)
(* Locks, references and memory                                            *)
(***************************************************************************)
\* C16: when a cycle has ended, on whatever path, the address-list lock of
\* the device is not held and the engine holds no reference to the master
\* device or to the primary interface, as before the cycle; both the lock
\* and the master reference are given back before the local collector has
\* returned
C16_LockAndRefsReleased ==
    /\ pc \in {"idle", "done"} =>
          /\ ~addr_lock
          /\ master_refs = 0
          /\ primary_refs = 0
    /\ pc \notin {"local_loop", "local_exit"} =>
          /\ ~addr_lock
          /\ master_refs = 0

\* the walk of the master's list was cut short by the capacity test
C16_Witness ==
    /\ pc = "done"
    /\ env.has_master
    /\ primary_if
    /\ "local" \in warned
    /\ ~addr_lock
    /\ master_refs = 0
    /\ primary_refs = 0

\* C17: at the end of every cycle, on whatever path, the candidate list and
\* the temporary list of the snooping query are empty and the entries still
\* allocated are exactly those of mla_list; at every step each allocated
\* entry is on exactly one of the two lists, so that an entry the reconcile
\* unlinks from mla_list is freed once, and the temporary list is empty
\* outside the bridge collector
C17_NoLeak ==
    /\ heap = Len(mla_list) + Len(mcast_list)
    /\ pc \notin {"bridge_loop", "bridge_exit"} => bridge_mcast_list = <<>>
    /\ pc \in {"idle", "done"} =>
          /\ mcast_list = <<>>
          /\ heap = Len(mla_list)

\* a reconcile that unlinked an entry, moved one over, and left one on the
\* candidate list for batadv_mcast_mla_collect_free
C17_Witness ==
    /\ pc = "done"
    /\ reconciled
    /\ \E i \in 1..Len(ops) : ops[i][1] = "remove"
    /\ Adds # <<>>
    /\ Len(Adds) < Len(cand)
    /\ "bridge" \in ran
    /\ heap = Len(mla_list)

(***************************************************************************)
(* The bridge collector, lines 342-387                                     *)
(***************************************************************************)
\* what the bridge collector has put on mcast_list in the running call, and
\* what the local collector had left there (ret still holds its count)
BridgeAdded == SubSeq(mcast_list, 1, num_mla)

LocalPart == SubSeq(mcast_list, num_mla + 1, Len(mcast_list))

\* C18: throughout a call of the bridge collector the addresses it has added
\* are pairwise different and none of them is among the entries of the local
\* collector; its count is the number of entries it added, passed-over
\* duplicates not included, and never exceeds num_mla_max; the capacity
\* warning is only raised with num_mla_max entries added; a return value
\* that is no error is that count
C18_BridgeContract ==
    /\ pc \in {"bridge_loop", "bridge_exit"} =>
          /\ Len(mcast_list) = ret + num_mla
          /\ NoDup(BridgeAdded)
          /\ Range(BridgeAdded) \cap Range(LocalPart) = {}
          /\ num_mla <= num_mla_max
          /\ num_mla <= idx - 1
          /\ "bridge" \in warned => num_mla = num_mla_max
    /\ (pc = "tt_clean" /\ "bridge" \in ran /\ ~reconciled /\ idx = 1) =>
          /\ ret = num_mla
          /\ ret <= num_mla_max
          /\ NoDup(BridgeAdded)
          /\ Range(BridgeAdded) \cap Range(LocalPart) = {}

\* with a budget of one entry, the first snooped address was passed over as
\* a duplicate and the second was added
C18_Witness ==
    /\ pc = "tt_clean"
    /\ "bridge" \in ran
    /\ ~reconciled
    /\ idx = 1
    /\ num_mla_max = 1
    /\ ret = 1
    /\ Len(env.br) >= 2
    /\ batadv_mcast_mla_br_addr_cpy(env.br[1]) \in Range(LocalPart)
    /\ batadv_mcast_mla_br_addr_cpy(env.br[2]) = mcast_list[1]

(***************************************************************************)
(* One reconcile, lines 471-473                                            *)
(***************************************************************************)
\* the candidate list of the reconcile: batadv_mcast_mla_tt_clean leaves
\* mcast_list as it is, batadv_mcast_mla_tt_add takes entries off it
Candidate == IF pc = "tt_clean" THEN mcast_list ELSE cand

InReconcile == pc \in {"tt_clean", "tt_add"} \/ (AtEnd /\ reconciled)

Max(a, b) == IF a >= b THEN a ELSE b

\* C19: at every step of a reconcile the number of translation-table entries
\* of the engine is at most the larger of the number of addresses announced
\* before and the number of candidate addresses, and an address that is in
\* both keeps its entry: no remove and no add is issued for it
C19_PeakAndStable ==
    InReconcile =>
        /\ Cardinality(OwnEntries) <=
              Max(Cardinality(Range(start_mla)), Cardinality(Range(Candidate)))
        /\ \A a \in Range(start_mla) \cap Range(Candidate) :
              /\ a \in tt
              /\ \A i \in 1..Len(ops) : ops[i][2] # a

C19_Witness ==
    /\ pc = "tt_add"
    /\ Range(start_mla) \cap Range(cand) # {}
    /\ \E i \in 1..Len(ops) : ops[i][1] = "remove"
    /\ Adds # <<>>
    /\ Cardinality(OwnEntries) = Cardinality(Range(start_mla))
    /\ Cardinality(OwnEntries) = Cardinality(Range(cand))
====
